---------------------------- MODULE Spec2Model ----------------------------
(***************************************************************************)
(* A model of the QR code generator: the survey authoring form             *)
(* (SurveyBuilder.tsx), the QR generator page that hosts it (QRGenerator)  *)
(* and the respondent page that decodes a survey link (SurveyPage).        *)
(*                                                                         *)
(* A JavaScript string is a sequence of UTF-16 code units (naturals).      *)
(* btoa, atob, JSON.stringify, JSON.parse, String.prototype.trim and the   *)
(* query-string parsing behind useSearchParams are modelled code unit by   *)
(* code unit, as the platform specifies them.                              *)
(***************************************************************************)
EXTENDS Integers, Sequences, FiniteSets, TLC

VARIABLES
    \* SurveyBuilder
    title,          \* useState("My Survey")
    questions,      \* useState<Question[]>([])
    nextId,         \* module-level counter, survives remounts
    onGenerate,     \* the call of props.onGenerate the last step made, if any
    steps,          \* handler calls made in this authoring session
    \* SurveyPage
    searchParams,   \* the query string the page was opened with
    phase,          \* Loading | Invalid | Active | Submitted | Crashed
    pageQuestions,  \* the memoised JSON value read from q
    pageTitle,      \* the memoised title read from t
    answers,        \* useState<Record<number,string>>({})
    submitted,      \* useState(false)
    \* QRGenerator
    mode, url, previewSrc, loading, generated, activeUrl,
    pending,        \* QRCode.toDataURL promises not yet settled
    download        \* the file the last step offered, if any

builderVars == <<title, questions, nextId, onGenerate, steps>>
pageVars == <<searchParams, phase, pageQuestions, pageTitle, answers, submitted>>
qrVars == <<mode, url, previewSrc, loading, generated, activeUrl, pending, download>>
vars == <<builderVars, pageVars, qrVars>>

-----------------------------------------------------------------------------
(* Strings *)

\* Code units used by name below.
Chr == [ tab |-> 9, lf |-> 10, ff |-> 12, cr |-> 13, space |-> 32,
         quote |-> 34, hash |-> 35, percent |-> 37, amp |-> 38, plus |-> 43,
         comma |-> 44, minus |-> 45, dot |-> 46, slash |-> 47, zero |-> 48,
         nine |-> 57, colon |-> 58, equals |-> 61, qmark |-> 63,
         lbracket |-> 91, backslash |-> 92, rbracket |-> 93,
         lbrace |-> 123, rbrace |-> 125, replacement |-> 65533 ]

\* WhiteSpace and LineTerminator code units, the ones trim() strips.
WhiteSpace ==
    {9, 10, 11, 12, 13, 32, 160, 5760, 8232, 8233, 8239, 8287, 12288, 65279}
        \cup (8192 .. 8202)

RECURSIVE TrimStart(_)
TrimStart(s) ==
    IF s = <<>> THEN <<>>
    ELSE IF Head(s) \in WhiteSpace THEN TrimStart(Tail(s)) ELSE s

RECURSIVE TrimEnd(_)
TrimEnd(s) ==
    IF s = <<>> THEN <<>>
    ELSE IF s[Len(s)] \in WhiteSpace THEN TrimEnd(SubSeq(s, 1, Len(s) - 1)) ELSE s

\* String.prototype.trim
Trim(s) == TrimEnd(TrimStart(s))

\* A string in a boolean position: "" is falsy.
Truthy(s) == s # <<>>

\* The index of the first c in s at or after position p, or 0.
IndexOf(s, c, p) ==
    IF \E i \in p .. Len(s) : s[i] = c
    THEN CHOOSE i \in p .. Len(s) : s[i] = c /\ \A j \in p .. i - 1 : s[j] # c
    ELSE 0

\* A thrown exception, or a returned value.
Throw == [ok |-> FALSE, v |-> <<>>]
Return(v) == [ok |-> TRUE, v |-> v]

-----------------------------------------------------------------------------
(* btoa / atob *)

\* The base64 alphabet: A-Z a-z 0-9 + /
B64Char(i) ==
    IF i < 26 THEN 65 + i
    ELSE IF i < 52 THEN 97 + (i - 26)
    ELSE IF i < 62 THEN 48 + (i - 52)
    ELSE IF i = 62 THEN Chr.plus ELSE Chr.slash

B64Alphabet == {B64Char(i) : i \in 0 .. 63}

B64Index(c) == CHOOSE i \in 0 .. 63 : B64Char(i) = c

\* The i-th byte of s, 0 past its end.
ByteAt(s, i) == IF i <= Len(s) THEN s[i] ELSE 0

\* Three bytes make four characters; a last group of one or two bytes is
\* padded with '='.
B64Encode(s) ==
    [ i \in 1 .. 4 * ((Len(s) + 2) \div 3) |->
        LET g == 3 * ((i - 1) \div 4)
            b1 == ByteAt(s, g + 1)
            b2 == ByteAt(s, g + 2)
            b3 == ByteAt(s, g + 3)
        IN  CASE (i - 1) % 4 = 0 -> B64Char(b1 \div 4)
              [] (i - 1) % 4 = 1 -> B64Char((b1 % 4) * 16 + b2 \div 16)
              [] (i - 1) % 4 = 2 ->
                    IF g + 2 > Len(s) THEN Chr.equals
                    ELSE B64Char((b2 % 16) * 4 + b3 \div 64)
              [] OTHER ->
                    IF g + 3 > Len(s) THEN Chr.equals ELSE B64Char(b3 % 64) ]

\* btoa: throws InvalidCharacterError on a code unit above 0xFF.
Btoa(s) ==
    IF \E i \in 1 .. Len(s) : s[i] > 255 THEN Throw ELSE Return(B64Encode(s))

AsciiWhitespace == {9, 10, 12, 13, 32}

RemoveAll(s, cs) == LET Kept(c) == c \notin cs IN SelectSeq(s, Kept)

\* Forgiving-base64: with a length divisible by 4, one or two trailing '=' go.
StripPadding(s) ==
    IF Len(s) % 4 = 0 /\ Len(s) > 0 /\ s[Len(s)] = Chr.equals
    THEN IF s[Len(s) - 1] = Chr.equals
         THEN SubSeq(s, 1, Len(s) - 2) ELSE SubSeq(s, 1, Len(s) - 1)
    ELSE s

\* The 6 bits of the i-th character of s, 0 past its end.
SextetAt(s, i) == IF i <= Len(s) THEN B64Index(s[i]) ELSE 0

\* Four characters make three bytes; the bits of a last group of two or
\* three characters that fill no byte are dropped.
B64Decode(s) ==
    [ i \in 1 .. (Len(s) * 6) \div 8 |->
        LET g == 4 * ((i - 1) \div 3)
            a == SextetAt(s, g + 1)
            b == SextetAt(s, g + 2)
            c == SextetAt(s, g + 3)
            d == SextetAt(s, g + 4)
        IN  CASE (i - 1) % 3 = 0 -> a * 4 + b \div 16
              [] (i - 1) % 3 = 1 -> (b % 16) * 16 + c \div 4
              [] OTHER -> (c % 4) * 64 + d ]

\* atob: the forgiving-base64 decode; throws on a length of 1 mod 4 or on a
\* code unit outside the alphabet.
Atob(s) ==
    LET d == StripPadding(RemoveAll(s, AsciiWhitespace))
    IN  IF Len(d) % 4 = 1 \/ (\E i \in 1 .. Len(d) : d[i] \notin B64Alphabet)
        THEN Throw ELSE Return(B64Decode(d))

-----------------------------------------------------------------------------
(* The query string: location.search and URLSearchParams *)

Absent == [found |-> FALSE, v |-> <<>>]
Present(v) == [found |-> TRUE, v |-> v]

\* location.search of a URL: from the first '?' up to a '#', the '?' left out.
Search(u) ==
    LET q == IndexOf(u, Chr.qmark, 1)
        h == IndexOf(u, Chr.hash, 1)
        end == IF h = 0 THEN Len(u) ELSE h - 1
    IN  IF q = 0 \/ (h # 0 /\ h < q) THEN <<>> ELSE SubSeq(u, q + 1, end)

HexDigits == (48 .. 57) \cup (65 .. 70) \cup (97 .. 102)

HexValue(c) == IF c <= 57 THEN c - 48 ELSE IF c <= 70 THEN c - 55 ELSE c - 87

\* application/x-www-form-urlencoded decoding of a name or a value: '+' is a
\* space, %XX a byte.  A byte below 0x80 is its code unit; a byte from 0x80
\* decodes as U+FFFD, as it does outside a well-formed UTF-8 sequence.
FormDecode(s) ==
    LET Escape(i) == /\ i >= 1 /\ i + 2 <= Len(s) /\ s[i] = Chr.percent
                     /\ s[i + 1] \in HexDigits /\ s[i + 2] \in HexDigits
        Byte(i) == 16 * HexValue(s[i + 1]) + HexValue(s[i + 2])
        Unit(i) == IF Escape(i) THEN IF Byte(i) < 128 THEN Byte(i) ELSE Chr.replacement
                   ELSE IF s[i] = Chr.plus THEN Chr.space ELSE s[i]
        marked == [i \in 1 .. Len(s) |-> <<Escape(i - 1) \/ Escape(i - 2), Unit(i)>>]
        Kept(m) == ~m[1]
        kept == SelectSeq(marked, Kept)
    IN  [i \in 1 .. Len(kept) |-> kept[i][2]]

\* URLSearchParams.get(name) on a query string: the pairs are split at '&',
\* each at its first '=', and the first pair named name gives the value.
RECURSIVE SearchParamsGet(_, _)
SearchParamsGet(qs, name) ==
    IF qs = <<>> THEN Absent
    ELSE LET amp == IndexOf(qs, Chr.amp, 1)
             pair == IF amp = 0 THEN qs ELSE SubSeq(qs, 1, amp - 1)
             rest == IF amp = 0 THEN <<>> ELSE SubSeq(qs, amp + 1, Len(qs))
             eq == IndexOf(pair, Chr.equals, 1)
             key == IF eq = 0 THEN pair ELSE SubSeq(pair, 1, eq - 1)
             val == IF eq = 0 THEN <<>> ELSE SubSeq(pair, eq + 1, Len(pair))
         IN  IF pair # <<>> /\ FormDecode(key) = name
             THEN Present(FormDecode(val))
             ELSE SearchParamsGet(rest, name)

-----------------------------------------------------------------------------
(* JSON values *)

\* A JavaScript value as JSON.parse returns it.  Every value is a record of
\* the same shape: t is the type, n an integer, s a string, a the elements of
\* an array or the member values of an object, k the member names.
JUndefined == [t |-> "undefined", n |-> 0, s |-> <<>>, a |-> <<>>, k |-> <<>>]
JNull == [t |-> "null", n |-> 0, s |-> <<>>, a |-> <<>>, k |-> <<>>]
JBool(b) == [t |-> IF b THEN "true" ELSE "false", n |-> 0, s |-> <<>>, a |-> <<>>, k |-> <<>>]
JNum(n) == [t |-> "number", n |-> n, s |-> <<>>, a |-> <<>>, k |-> <<>>]
\* A number with a fraction or an exponent, kept as its lexeme.
JReal(lexeme) == [t |-> "real", n |-> 0, s |-> lexeme, a |-> <<>>, k |-> <<>>]
JStr(s) == [t |-> "string", n |-> 0, s |-> s, a |-> <<>>, k |-> <<>>]
JArr(a) == [t |-> "array", n |-> 0, s |-> <<>>, a |-> a, k |-> <<>>]
JObj(k, a) == [t |-> "object", n |-> 0, s |-> <<>>, a |-> a, k |-> k]

\* Property names the pages read.
Key == [ id |-> <<105, 100>>,
         text |-> <<116, 101, 120, 116>>,
         type |-> <<116, 121, 112, 101>>,
         options |-> <<111, 112, 116, 105, 111, 110, 115>>,
         length |-> <<108, 101, 110, 103, 116, 104>>,
         mcq |-> <<109, 99, 113>> ]

RECURSIVE Digits(_)
Digits(n) == IF n < 10 THEN <<48 + n>> ELSE Digits(n \div 10) \o <<48 + (n % 10)>>

\* Number::toString of an integer.
NumberToString(n) == IF n < 0 THEN <<Chr.minus>> \o Digits(0 - n) ELSE Digits(n)

HexChar(d) == IF d < 10 THEN 48 + d ELSE 87 + d

\* QuoteJSONString: the escapes of '"', '\', the control characters and the
\* lone surrogates; every other code unit as it is.
RECURSIVE QuoteBody(_)
QuoteBody(s) ==
    LET Special(c) == c = Chr.quote \/ c = Chr.backslash \/ c < 32 \/ c \in 55296 .. 57343
    IN  IF \A i \in 1 .. Len(s) : ~Special(s[i]) THEN s
        ELSE LET i == CHOOSE i \in 1 .. Len(s) :
                          Special(s[i]) /\ \A j \in 1 .. i - 1 : ~Special(s[j])
                 c == s[i]
                 u4 == <<Chr.backslash, 117, HexChar(c \div 4096), HexChar((c \div 256) % 16),
                         HexChar((c \div 16) % 16), HexChar(c % 16)>>
                 pair == i < Len(s) /\ c \in 55296 .. 56319 /\ s[i + 1] \in 56320 .. 57343
                 e == IF c = Chr.quote THEN <<Chr.backslash, Chr.quote>>
                      ELSE IF c = Chr.backslash THEN <<Chr.backslash, Chr.backslash>>
                      ELSE IF c = 8 THEN <<Chr.backslash, 98>>
                      ELSE IF c = 9 THEN <<Chr.backslash, 116>>
                      ELSE IF c = 10 THEN <<Chr.backslash, 110>>
                      ELSE IF c = 12 THEN <<Chr.backslash, 102>>
                      ELSE IF c = 13 THEN <<Chr.backslash, 114>>
                      ELSE IF pair THEN <<c, s[i + 1]>>
                      ELSE u4
                 next == IF pair THEN i + 2 ELSE i + 1
             IN  SubSeq(s, 1, i - 1) \o e \o QuoteBody(SubSeq(s, next, Len(s)))

QuoteJSONString(s) == <<Chr.quote>> \o QuoteBody(s) \o <<Chr.quote>>

\* JSON.stringify(value), no indent.  In an array undefined is written null;
\* in an object a member whose value is undefined is left out.
RECURSIVE JSONStringify(_)
RECURSIVE StringifyElements(_)
RECURSIVE StringifyMembers(_, _, _)
JSONStringify(v) ==
    CASE v.t = "null" -> <<110, 117, 108, 108>>
      [] v.t = "undefined" -> <<110, 117, 108, 108>>
      [] v.t = "true" -> <<116, 114, 117, 101>>
      [] v.t = "false" -> <<102, 97, 108, 115, 101>>
      [] v.t = "number" -> NumberToString(v.n)
      [] v.t = "real" -> v.s
      [] v.t = "string" -> QuoteJSONString(v.s)
      [] v.t = "array" -> <<Chr.lbracket>> \o StringifyElements(v.a) \o <<Chr.rbracket>>
      [] v.t = "object" -> <<Chr.lbrace>> \o StringifyMembers(v.k, v.a, TRUE) \o <<Chr.rbrace>>
StringifyElements(a) ==
    IF a = <<>> THEN <<>>
    ELSE JSONStringify(Head(a))
         \o (IF Len(a) > 1 THEN <<Chr.comma>> ELSE <<>>) \o StringifyElements(Tail(a))
StringifyMembers(k, a, first) ==
    IF k = <<>> THEN <<>>
    ELSE IF Head(a).t = "undefined" THEN StringifyMembers(Tail(k), Tail(a), first)
    ELSE (IF first THEN <<>> ELSE <<Chr.comma>>)
         \o QuoteJSONString(Head(k)) \o <<Chr.colon>> \o JSONStringify(Head(a))
         \o StringifyMembers(Tail(k), Tail(a), FALSE)


-----------------------------------------------------------------------------
(* JSON.parse *)

\* A parse step: failed, or a value and the position after it.
ParseFail == [ok |-> FALSE, v |-> JNull, p |-> 0]
Parsed(v, p) == [ok |-> TRUE, v |-> v, p |-> p]

JSONWhitespace == {9, 10, 13, 32}

At(s, p) == IF p >= 1 /\ p <= Len(s) THEN s[p] ELSE 0 - 1

RECURSIVE SkipWs(_, _)
SkipWs(s, p) == IF At(s, p) \in JSONWhitespace THEN SkipWs(s, p + 1) ELSE p

\* Whether the word w stands in s at position p.
StartsWith(s, p, w) ==
    p + Len(w) - 1 <= Len(s) /\ \A i \in 1 .. Len(w) : s[p + i - 1] = w[i]

\* The position after the run of decimal digits that starts at p.
RECURSIVE DigitsEnd(_, _)
DigitsEnd(s, p) == IF At(s, p) \in 48 .. 57 THEN DigitsEnd(s, p + 1) ELSE p

RECURSIVE Numeral(_, _, _)
Numeral(s, p, q) == IF q < p THEN 0 ELSE 10 * Numeral(s, p, q - 1) + (s[q] - 48)

\* JSONNumber: -? (0 | [1-9][0-9]*) (. [0-9]+)? ([eE] [+-]? [0-9]+)?
ParseNumber(s, p) ==
    LET i == IF At(s, p) = Chr.minus THEN p + 1 ELSE p
        j == IF At(s, i) = Chr.zero THEN i + 1 ELSE DigitsEnd(s, i)
        f == IF At(s, j) = Chr.dot THEN DigitsEnd(s, j + 1) ELSE j
        x == IF At(s, f) \in {69, 101}
             THEN IF At(s, f + 1) \in {Chr.plus, Chr.minus} THEN f + 2 ELSE f + 1
             ELSE f
        e == IF x = f THEN f ELSE DigitsEnd(s, x)
    IN  IF j = i \/ (f # j /\ f = j + 1) \/ (x # f /\ e = x) THEN ParseFail
        ELSE IF e = j
        THEN Parsed(JNum(IF i = p THEN Numeral(s, i, j - 1) ELSE 0 - Numeral(s, i, j - 1)), e)
        ELSE Parsed(JReal(SubSeq(s, p, e - 1)), e)

\* JSONString from the code unit after the opening quote; acc is what was
\* read.  A run of plain characters is taken at once.
RECURSIVE ParseString(_, _, _)
ParseString(s, p, acc) ==
    LET Special(i) == i > Len(s) \/ s[i] < 32 \/ s[i] = Chr.quote \/ s[i] = Chr.backslash
        q == CHOOSE i \in p .. Len(s) + 1 : Special(i) /\ \A j \in p .. i - 1 : ~Special(j)
        c == At(s, q)
        read == acc \o SubSeq(s, p, q - 1)
    IN  IF c < 32 THEN ParseFail
        ELSE IF c = Chr.quote THEN Parsed(JStr(read), q + 1)
        ELSE LET d == At(s, q + 1)
             IN  CASE d \in {Chr.quote, Chr.backslash, Chr.slash} ->
                        ParseString(s, q + 2, Append(read, d))
                   [] d = 98 -> ParseString(s, q + 2, Append(read, 8))
                   [] d = 102 -> ParseString(s, q + 2, Append(read, 12))
                   [] d = 110 -> ParseString(s, q + 2, Append(read, 10))
                   [] d = 114 -> ParseString(s, q + 2, Append(read, 13))
                   [] d = 116 -> ParseString(s, q + 2, Append(read, 9))
                   [] d = 117 /\ \A i \in 2 .. 5 : At(s, q + i) \in HexDigits ->
                        ParseString(s, q + 6,
                            Append(read, 4096 * HexValue(s[q + 2]) + 256 * HexValue(s[q + 3])
                                        + 16 * HexValue(s[q + 4]) + HexValue(s[q + 5])))
                   [] OTHER -> ParseFail

\* CreateDataProperty on the object being built: a repeated name keeps its
\* place and takes the later value.
SetMember(o, name, v) ==
    IF \E i \in 1 .. Len(o.k) : o.k[i] = name
    THEN LET i == CHOOSE i \in 1 .. Len(o.k) : o.k[i] = name
         IN  JObj(o.k, [o.a EXCEPT ![i] = v])
    ELSE JObj(Append(o.k, name), Append(o.a, v))

RECURSIVE ParseValue(_, _)
RECURSIVE ParseElements(_, _, _)
RECURSIVE ParseMembers(_, _, _)
ParseValue(s, p0) ==
    LET p == SkipWs(s, p0)
        c == At(s, p)
    IN  CASE c = Chr.lbracket ->
                IF At(s, SkipWs(s, p + 1)) = Chr.rbracket
                THEN Parsed(JArr(<<>>), SkipWs(s, p + 1) + 1)
                ELSE ParseElements(s, p + 1, <<>>)
          [] c = Chr.lbrace ->
                IF At(s, SkipWs(s, p + 1)) = Chr.rbrace
                THEN Parsed(JObj(<<>>, <<>>), SkipWs(s, p + 1) + 1)
                ELSE ParseMembers(s, p + 1, JObj(<<>>, <<>>))
          [] c = Chr.quote -> ParseString(s, p + 1, <<>>)
          [] c = Chr.minus \/ c \in 48 .. 57 -> ParseNumber(s, p)
          [] StartsWith(s, p, <<116, 114, 117, 101>>) -> Parsed(JBool(TRUE), p + 4)
          [] StartsWith(s, p, <<102, 97, 108, 115, 101>>) -> Parsed(JBool(FALSE), p + 5)
          [] StartsWith(s, p, <<110, 117, 108, 108>>) -> Parsed(JNull, p + 4)
          [] OTHER -> ParseFail
ParseElements(s, p, acc) ==
    LET r == ParseValue(s, p)
        q == SkipWs(s, r.p)
    IN  IF ~r.ok THEN ParseFail
        ELSE IF At(s, q) = Chr.comma THEN ParseElements(s, q + 1, Append(acc, r.v))
        ELSE IF At(s, q) = Chr.rbracket THEN Parsed(JArr(Append(acc, r.v)), q + 1)
        ELSE ParseFail
ParseMembers(s, p0, o) ==
    LET p == SkipWs(s, p0)
        name == IF At(s, p) = Chr.quote THEN ParseString(s, p + 1, <<>>) ELSE ParseFail
        c == SkipWs(s, name.p)
        r == IF name.ok /\ At(s, c) = Chr.colon THEN ParseValue(s, c + 1) ELSE ParseFail
        q == SkipWs(s, r.p)
    IN  IF ~r.ok THEN ParseFail
        ELSE IF At(s, q) = Chr.comma THEN ParseMembers(s, q + 1, SetMember(o, name.v.s, r.v))
        ELSE IF At(s, q) = Chr.rbrace THEN Parsed(SetMember(o, name.v.s, r.v), q + 1)
        ELSE ParseFail

\* JSON.parse(text): the one value of the text, or a SyntaxError.
JSONParse(s) ==
    LET r == ParseValue(s, 1)
    IN  IF r.ok /\ SkipWs(s, r.p) = Len(s) + 1
        THEN [ok |-> TRUE, v |-> r.v] ELSE [ok |-> FALSE, v |-> JNull]

-----------------------------------------------------------------------------
(* SurveyBuilder *)

\* An authoring session is followed for at most MaxSteps handler calls.
MaxSteps == 6

MinOptions == 2
MaxOptions == 6

\* What a handler did with a callback: it called it with arg, or did not.
NoCall == [called |-> FALSE, arg |-> <<>>]
Call(arg) == [called |-> TRUE, arg |-> arg]

\* What the last step did: ran tells whether it was the handler that makes
\* the call, called and arg what that handler did.
Idle == [ran |-> FALSE, called |-> FALSE, arg |-> <<>>]
Ran(c) == [ran |-> TRUE, called |-> c.called, arg |-> c.arg]

InitialTitle == <<77, 121, 32, 83, 117, 114, 118, 101, 121>>   \* "My Survey"

\* What gets typed into the title field: "", " ab>" and a title with U+20AC.
TitleInputs == { <<>>, <<32, 97, 98, 62>>, <<8364, 53>> }

\* What gets typed into a question field: "", " Q" followed by a quote, ">".
TextInputs == { <<>>, <<32, 81, 34>>, <<62>> }

\* What gets typed into an option field: "", " y", "z ".
OptionInputs == { <<>>, <<32, 121>>, <<122, 32>> }

\* window.location.origin of the authoring page.
previewUrl == <<104, 116, 116, 112, 58, 47, 47, 104>>   \* "http://h"

Question(id, text, type, options) ==
    [id |-> id, text |-> text, type |-> type, options |-> options]

\* One more handler call of the session; it hands nothing to onGenerate
\* unless it is handleGenerate.
Handler == steps < MaxSteps /\ steps' = steps + 1 /\ UNCHANGED <<pageVars, qrVars>>

\* onChange of the title field
SetTitle(v) ==
    /\ Handler
    /\ title' = v
    /\ onGenerate' = Idle
    /\ UNCHANGED <<questions, nextId>>

\* addQuestion with id: nextId, the counter left as it is.
addQuestionSameId(type) ==
    /\ Handler
    /\ questions' = Append(questions,
           Question(nextId, <<>>, type, IF type = "mcq" THEN << <<>>, <<>> >> ELSE <<>>))
    /\ onGenerate' = Idle
    /\ UNCHANGED <<title, nextId>>

addQuestion(type) ==
    /\ Handler
    /\ questions' = Append(questions,
           Question(nextId, <<>>, type, IF type = "mcq" THEN << <<>>, <<>> >> ELSE <<>>))
    /\ nextId' = nextId + 1
    /\ onGenerate' = Idle
    /\ UNCHANGED title

\* updateQuestion with no test of the id: every question gets the text.
updateQuestionAll(id, text) ==
    /\ Handler
    /\ questions' = [i \in DOMAIN questions |-> [questions[i] EXCEPT !.text = text]]
    /\ onGenerate' = Idle
    /\ UNCHANGED <<title, nextId>>

updateQuestion(id, text) ==
    /\ Handler
    /\ questions' = [i \in DOMAIN questions |->
           IF questions[i].id = id THEN [questions[i] EXCEPT !.text = text]
           ELSE questions[i]]
    /\ onGenerate' = Idle
    /\ UNCHANGED <<title, nextId>>

removeQuestion(id) ==
    /\ Handler
    /\ questions' = LET Keep(q) == q.id # id IN SelectSeq(questions, Keep)
    /\ onGenerate' = Idle
    /\ UNCHANGED <<title, nextId>>

\* The option controls are rendered for multiple-choice questions only.
OptionControls(qId) ==
    \A i \in DOMAIN questions : questions[i].id = qId => questions[i].type = "mcq"

\* oIdx is an array index, from 0.
updateOption(qId, oIdx, value) ==
    /\ Handler
    /\ OptionControls(qId)
    /\ questions' = [i \in DOMAIN questions |->
           IF questions[i].id = qId
           THEN [questions[i] EXCEPT !.options =
                    [j \in DOMAIN questions[i].options |->
                        IF j - 1 = oIdx THEN value ELSE questions[i].options[j]]]
           ELSE questions[i]]
    /\ onGenerate' = Idle
    /\ UNCHANGED <<title, nextId>>

\* addOption with no upper limit on the number of options.
addOptionUnlimited(q, qId) ==
    IF q.id = qId
    THEN [q EXCEPT !.options = Append(q.options, <<>>)]
    ELSE q

addOptionTo(q, qId) ==
    IF q.id = qId /\ Len(q.options) < MaxOptions
    THEN [q EXCEPT !.options = Append(q.options, <<>>)] ELSE q

addOption(qId) ==
    /\ Handler
    /\ OptionControls(qId)
    /\ questions' = [i \in DOMAIN questions |-> addOptionTo(questions[i], qId)]
    /\ onGenerate' = Idle
    /\ UNCHANGED <<title, nextId>>

\* filter((_, i) => i !== oIdx)
WithoutIndex(s, oIdx) ==
    IF oIdx + 1 \in DOMAIN s
    THEN [j \in 1 .. Len(s) - 1 |-> IF j <= oIdx THEN s[j] ELSE s[j + 1]]
    ELSE s

removeOptionFrom(q, qId, oIdx) ==
    IF q.id = qId /\ Len(q.options) > MinOptions
    THEN [q EXCEPT !.options = WithoutIndex(q.options, oIdx)]
    ELSE q

removeOption(qId, oIdx) ==
    /\ Handler
    /\ OptionControls(qId)
    /\ questions' = [i \in DOMAIN questions |-> removeOptionFrom(questions[i], qId, oIdx)]
    /\ onGenerate' = Idle
    /\ UNCHANGED <<title, nextId>>

\* canGenerate with the options of multiple-choice questions left unchecked.
canGenerateIgnoringOptions ==
    /\ Truthy(Trim(title))
    /\ Len(questions) > 0
    /\ \A i \in DOMAIN questions : Truthy(Trim(questions[i].text))

canGenerate ==
    /\ Truthy(Trim(title))
    /\ Len(questions) > 0
    /\ \A i \in DOMAIN questions :
          /\ Truthy(Trim(questions[i].text))
          /\ \/ questions[i].type = "text"
             \/ \A j \in DOMAIN questions[i].options : Truthy(Trim(questions[i].options[j]))

TypeName(type) == IF type = "text" THEN Key.text ELSE Key.mcq

\* The payload entry with the options field written for every question.
PayloadEntryWithOptions(q) ==
    LET Trimmed(o) == JStr(Trim(o))
    IN  JObj( <<Key.id, Key.text, Key.type, Key.options>>,
              <<JNum(q.id), JStr(Trim(q.text)), JStr(TypeName(q.type)),
                JArr([j \in DOMAIN q.options |-> Trimmed(q.options[j])])>> )

\* The entry of one question in the payload.
PayloadEntry(q) ==
    LET Trimmed(o) == JStr(Trim(o))
    IN  JObj( <<Key.id, Key.text, Key.type>>
                 \o (IF q.type = "mcq" THEN <<Key.options>> ELSE <<>>),
              <<JNum(q.id), JStr(Trim(q.text)), JStr(TypeName(q.type))>>
                 \o (IF q.type = "mcq"
                     THEN <<JArr([j \in DOMAIN q.options |-> Trimmed(q.options[j])])>>
                     ELSE <<>>) )

Payload(qs) == JArr([i \in DOMAIN qs |-> PayloadEntry(qs[i])])

\* `${previewUrl}/survey?t=${titleEncoded}&q=${encoded}`
SurveyUrl(titleEncoded, encoded) ==
    previewUrl \o <<47, 115, 117, 114, 118, 101, 121, 63, 116, 61>> \o titleEncoded
               \o <<38, 113, 61>> \o encoded

\* What handleGenerate hands to onGenerate for a title and a question list
\* that pass canGenerate: nothing when btoa throws.
Encode(ttl, qs) ==
    LET encoded == Btoa(JSONStringify(Payload(qs)))
        titleEncoded == Btoa(Trim(ttl))
    IN  IF encoded.ok /\ titleEncoded.ok
        THEN Call(SurveyUrl(titleEncoded.v, encoded.v)) ELSE NoCall

handleGenerate ==
    /\ Handler
    /\ onGenerate' = Ran(IF canGenerate THEN Encode(title, questions) ELSE NoCall)
    /\ UNCHANGED <<title, questions, nextId>>

\* The host page leaves the survey tab and comes back: SurveyBuilder is
\* unmounted and mounted again, its state is new, nextId is the module's.
Remount ==
    /\ Handler
    /\ title' = InitialTitle
    /\ questions' = <<>>
    /\ onGenerate' = Idle
    /\ UNCHANGED nextId

\* The ids a handler can be called with: those handed out, and the next one.
Ids == 1 .. nextId

OptionIndexes == 0 .. MaxOptions

PageIdle ==
    /\ searchParams = <<>> /\ phase = "Loading" /\ pageQuestions = JUndefined
    /\ pageTitle = <<>> /\ answers = <<>> /\ submitted = FALSE

QRIdle ==
    /\ mode = "survey" /\ url = <<>> /\ previewSrc = [image |-> FALSE, text |-> <<>>, width |-> 0]
    /\ loading = FALSE /\ generated = FALSE /\ activeUrl = <<>> /\ pending = <<>>
    /\ download = Idle

InitBuilder ==
    /\ title = InitialTitle
    /\ questions = <<>>
    /\ nextId = 1
    /\ onGenerate = Idle
    /\ steps = 0
    /\ PageIdle
    /\ QRIdle

NextBuilder ==
    \/ \E v \in TitleInputs : SetTitle(v)
    \/ \E type \in {"text", "mcq"} : addQuestion(type)
    \/ \E id \in Ids, text \in TextInputs : updateQuestion(id, text)
    \/ \E id \in Ids : removeQuestion(id)
    \/ \E id \in Ids, oIdx \in OptionIndexes, v \in OptionInputs : updateOption(id, oIdx, v)
    \/ \E id \in Ids : addOption(id)
    \/ \E id \in Ids, oIdx \in OptionIndexes : removeOption(id, oIdx)
    \/ handleGenerate
    \/ Remount

SpecBuilder == InitBuilder /\ [][NextBuilder]_vars

-----------------------------------------------------------------------------
(* SurveyPage *)

DefaultTitle == <<83, 117, 114, 118, 101, 121>>   \* "Survey"

\* The questions memo with a catch that returns null instead of [].
DecodeQuestionsNullOnError(qs) ==
    LET encoded == SearchParamsGet(qs, <<113>>)
        decoded == Atob(encoded.v)
        parsed == JSONParse(decoded.v)
    IN  IF ~encoded.found \/ ~Truthy(encoded.v) THEN JArr(<<>>)
        ELSE IF ~decoded.ok THEN JNull
        ELSE IF ~parsed.ok THEN JNull
        ELSE parsed.v

\* The questions memo: q read, decoded and parsed; [] when q is missing or
\* empty and when atob or JSON.parse throws.
DecodeQuestions(qs) ==
    LET encoded == SearchParamsGet(qs, <<113>>)
        decoded == Atob(encoded.v)
        parsed == JSONParse(decoded.v)
    IN  IF ~encoded.found \/ ~Truthy(encoded.v) THEN JArr(<<>>)
        ELSE IF ~decoded.ok THEN JArr(<<>>)
        ELSE IF ~parsed.ok THEN JArr(<<>>)
        ELSE parsed.v

\* The title memo with no fallback for a missing t.
DecodeTitleNoDefault(qs) ==
    LET t == SearchParamsGet(qs, <<116>>)
        decoded == Atob(t.v)
    IN  IF ~t.found \/ ~Truthy(t.v) THEN <<>>
        ELSE IF ~decoded.ok THEN DefaultTitle
        ELSE decoded.v

\* The title memo: t decoded, "Survey" when t is missing or empty and when
\* atob throws.
DecodeTitle(qs) ==
    LET t == SearchParamsGet(qs, <<116>>)
        decoded == Atob(t.v)
    IN  IF ~t.found \/ ~Truthy(t.v) THEN DefaultTitle
        ELSE IF ~decoded.ok THEN DefaultTitle
        ELSE decoded.v

Nullish(v) == v.t \in {"null", "undefined"}

\* v[name] for a value that is not null or undefined.
GetProp(v, name) ==
    CASE v.t = "object" ->
            IF \E i \in 1 .. Len(v.k) : v.k[i] = name
            THEN v.a[CHOOSE i \in 1 .. Len(v.k) : v.k[i] = name] ELSE JUndefined
      [] v.t = "array" /\ name = Key.length -> JNum(Len(v.a))
      [] v.t = "string" /\ name = Key.length -> JNum(Len(v.s))
      [] OTHER -> JUndefined

\* ToPropertyKey of a value used as an index of answers.
RECURSIVE PropertyKey(_)
RECURSIVE JoinKeys(_)
PropertyKey(v) ==
    CASE v.t = "number" -> NumberToString(v.n)
      [] v.t \in {"string", "real"} -> v.s
      [] v.t = "undefined" -> <<117, 110, 100, 101, 102, 105, 110, 101, 100>>
      [] v.t = "null" -> <<110, 117, 108, 108>>
      [] v.t = "true" -> <<116, 114, 117, 101>>
      [] v.t = "false" -> <<102, 97, 108, 115, 101>>
      [] v.t = "array" -> JoinKeys(v.a)
      [] v.t = "object" ->     \* "[object Object]"
            <<91, 111, 98, 106, 101, 99, 116, 32, 79, 98, 106, 101, 99, 116, 93>>
JoinKeys(a) ==
    IF a = <<>> THEN <<>>
    ELSE (IF Nullish(Head(a)) THEN <<>> ELSE PropertyKey(Head(a)))
         \o (IF Len(a) > 1 THEN <<Chr.comma>> ELSE <<>>) \o JoinKeys(Tail(a))

\* answers[key]
AnswerOf(ans, key) == IF key \in DOMAIN ans THEN ans[key] ELSE JUndefined

\* handleAnswer without the spread of the previous answers.
handleAnswerNoSpread(ans, qId, value) ==
    LET key == PropertyKey(qId)
    IN  [k \in {key} |-> value]

\* setAnswers((prev) => ({ ...prev, [qId]: value }))
handleAnswer(ans, qId, value) ==
    LET key == PropertyKey(qId)
    IN  [k \in DOMAIN ans \cup {key} |-> IF k = key THEN value ELSE ans[k]]

\* answers[q.id] taken as it is, without trim().
AnsweredUntrimmed(q, ans) ==
    IF Nullish(q) THEN "throws"
    ELSE LET a == AnswerOf(ans, PropertyKey(GetProp(q, Key.id)))
         IN  IF Nullish(a) THEN "no"
             ELSE IF a.t # "string" THEN "throws"
             ELSE IF Truthy(a.s) THEN "yes" ELSE "no"

\* answers[q.id]?.trim() for one question: "throws" on a question that is
\* null and on an answer that is no string, else whether it is truthy.
Answered(q, ans) ==
    IF Nullish(q) THEN "throws"
    ELSE LET a == AnswerOf(ans, PropertyKey(GetProp(q, Key.id)))
         IN  IF Nullish(a) THEN "no"
             ELSE IF a.t # "string" THEN "throws"
             ELSE IF Truthy(Trim(a.s)) THEN "yes" ELSE "no"

\* questions.every(...) over an array: it stops at the first falsy result.
RECURSIVE Every(_, _)
Every(qs, ans) ==
    IF qs = <<>> THEN "yes"
    ELSE LET r == Answered(Head(qs), ans)
         IN  IF r = "yes" THEN Every(Tail(qs), ans) ELSE r

\* questions.length > 0 && questions.every(...), for an array.
AllAnswered(qv, ans) ==
    IF Len(qv.a) > 0 THEN Every(qv.a, ans) ELSE "no"

\* Whether React can render the value as a child: not an object.
RECURSIVE ValidChild(_)
ValidChild(v) ==
    CASE v.t = "object" -> FALSE
      [] v.t = "array" -> \A i \in 1 .. Len(v.a) : ValidChild(v.a[i])
      [] OTHER -> TRUE

\* Whether rendering the card of one question throws.
CardThrows(q) ==
    \/ Nullish(q)
    \/ ~ValidChild(GetProp(q, Key.text))
    \/ /\ GetProp(q, Key.type) # JStr(Key.text)
       /\ LET options == GetProp(q, Key.options)
          IN  /\ ~Nullish(options)
              /\ \/ options.t # "array"
                 \/ \E j \in 1 .. Len(options.a) : ~ValidChild(options.a[j])

\* One render of the page: the branch it returns, or Crashed when it throws.
Render(qv, ans, sub) ==
    IF Nullish(qv) THEN "Crashed"
    ELSE IF qv.t # "array"
    THEN IF GetProp(qv, Key.length) = JNum(0) THEN "Invalid" ELSE "Crashed"
    ELSE IF AllAnswered(qv, ans) = "throws" THEN "Crashed"
    ELSE IF Len(qv.a) = 0 THEN "Invalid"
    ELSE IF sub THEN "Submitted"
    ELSE IF \E i \in 1 .. Len(qv.a) : CardThrows(qv.a[i]) THEN "Crashed"
    ELSE "Active"

\* The first render of a page opened on searchParams.
Mount ==
    /\ phase = "Loading"
    /\ pageQuestions' = DecodeQuestions(searchParams)
    /\ pageTitle' = DecodeTitle(searchParams)
    /\ phase' = Render(pageQuestions', answers, submitted)
    /\ UNCHANGED <<searchParams, answers, submitted, builderVars, qrVars>>

\* What gets typed into a textarea: "", " ", "a".
AnswerInputs == { <<>>, <<32>>, <<97>> }

\* onChange of the textarea, with the value also written into the question.
AnswerTextWritesQuestion(i, value) ==
    /\ phase = "Active"
    /\ i \in 1 .. Len(pageQuestions.a)
    /\ GetProp(pageQuestions.a[i], Key.type) = JStr(Key.text)
    /\ answers' = handleAnswer(answers, GetProp(pageQuestions.a[i], Key.id), JStr(value))
    /\ pageQuestions' = [pageQuestions EXCEPT !.a[i] = SetMember(@, Key.text, JStr(value))]
    /\ phase' = Render(pageQuestions', answers', submitted)
    /\ UNCHANGED <<searchParams, pageTitle, submitted, builderVars, qrVars>>

\* onChange of the textarea of question i
AnswerText(i, value) ==
    /\ phase = "Active"
    /\ i \in 1 .. Len(pageQuestions.a)
    /\ GetProp(pageQuestions.a[i], Key.type) = JStr(Key.text)
    /\ answers' = handleAnswer(answers, GetProp(pageQuestions.a[i], Key.id), JStr(value))
    /\ phase' = Render(pageQuestions, answers', submitted)
    /\ UNCHANGED <<searchParams, pageQuestions, pageTitle, submitted, builderVars, qrVars>>

\* The options rendered as radios for question i.
Radios(i) ==
    LET options == GetProp(pageQuestions.a[i], Key.options)
    IN  IF GetProp(pageQuestions.a[i], Key.type) # JStr(Key.text) /\ options.t = "array"
        THEN options.a ELSE <<>>

\* onChange of the radio of option j of question i
AnswerOption(i, j) ==
    /\ phase = "Active"
    /\ i \in 1 .. Len(pageQuestions.a)
    /\ GetProp(pageQuestions.a[i], Key.type) # JStr(Key.text)
    /\ LET options == GetProp(pageQuestions.a[i], Key.options)
       IN  /\ options.t = "array"
           /\ j \in 1 .. Len(options.a)
           /\ answers' = handleAnswer(answers, GetProp(pageQuestions.a[i], Key.id),
                                      options.a[j])
    /\ phase' = Render(pageQuestions, answers', submitted)
    /\ UNCHANGED <<searchParams, pageQuestions, pageTitle, submitted, builderVars, qrVars>>

\* The Submit button is disabled unless allAnswered.
SubmitEnabled == AllAnswered(pageQuestions, answers) = "yes"

Submit ==
    /\ phase = "Active"
    /\ SubmitEnabled
    /\ submitted' = TRUE
    /\ phase' = Render(pageQuestions, answers, submitted')
    /\ UNCHANGED <<searchParams, pageQuestions, pageTitle, answers, builderVars, qrVars>>

\* Surveys the authoring form can hold when Generate is pressed.
LunchPoll ==
    [ title |-> <<76, 117, 110, 99, 104, 32, 80, 111, 108, 108>>,   \* "Lunch Poll"
      questions |-> <<
        Question(1, <<80, 105, 122, 122, 97, 32, 111, 114, 32, 83, 117, 115, 104, 105, 63>>,
                 "mcq",                                 \* "Pizza or Sushi?"
                 << <<80, 105, 122, 122, 97>>,          \* "Pizza"
                    <<83, 117, 115, 104, 105>> >>) >> ] \* "Sushi"

TwoQuestions ==
    [ title |-> InitialTitle,
      questions |-> <<
        Question(1, <<32, 78, 97, 109, 101>>, "text", <<>>),              \* " Name"
        Question(3, <<87, 104, 121, 63>>, "mcq",                          \* "Why?"
                 << <<32, 121>>, <<122, 32>>, <<120>> >>) >> ]            \* " y", "z ", "x"

\* A question text that btoa writes with a '+': ">" right after "text":"
PlusInQuestions ==
    [ title |-> InitialTitle,
      questions |-> << Question(1, <<62>>, "text", <<>>) >> ]

\* A title that btoa writes with a '+': " ab>"
PlusInTitle ==
    [ title |-> <<32, 97, 98, 62>>,
      questions |-> << Question(2, <<78, 97, 109, 101>>, "text", <<>>) >> ]

SampleSurveys == {LunchPoll, TwoQuestions, PlusInQuestions, PlusInTitle}

\* The query string of the link the authoring form produces for a survey.
LinkOf(survey) == Search(Encode(survey.title, survey.questions).arg)

\* JSON values a hand-made q can carry that are no question list of the
\* authoring form.
OneQuestion(k, a) == JArr(<< JObj(k, a) >>)

MalformedPayloads ==
    { JObj(<<>>, <<>>),                                    \* {}
      JObj(<<Key.length>>, <<JNum(0)>>),                   \* {"length":0}
      JNum(5),                                             \* 5
      JStr(<<97, 98, 99>>),                                \* "abc"
      JNull,                                               \* null
      JArr(<< JNull >>),                                   \* [null]
      JArr(<< JNum(1) >>),                                 \* [1]
      OneQuestion(<<>>, <<>>),                             \* [{}]
      OneQuestion(<<Key.id, Key.type>>, <<JNum(1), JStr(Key.text)>>),
      OneQuestion(<<Key.id, Key.text, Key.type>>,
                  <<JNum(1), JObj(<<>>, <<>>), JStr(Key.text)>>),
      OneQuestion(<<Key.id, Key.text, Key.type, Key.options>>,
                  <<JNum(1), JStr(<<65>>), JStr(Key.mcq), JArr(<<JNum(5)>>)>>),
      OneQuestion(<<Key.id, Key.text, Key.type, Key.options>>,
                  <<JNum(1), JStr(<<65>>), JStr(Key.mcq), JStr(<<32>>)>>),
      \* two text questions of id 1; a text and a multiple-choice question of id 1
      JArr(<< JObj(<<Key.id, Key.text, Key.type>>, <<JNum(1), JStr(<<65>>), JStr(Key.text)>>),
              JObj(<<Key.id, Key.text, Key.type>>, <<JNum(1), JStr(<<66>>), JStr(Key.text)>>) >>),
      JArr(<< JObj(<<Key.id, Key.text, Key.type>>, <<JNum(1), JStr(<<65>>), JStr(Key.text)>>),
              JObj(<<Key.id, Key.text, Key.type, Key.options>>,
                   <<JNum(1), JStr(<<66>>), JStr(Key.mcq),
                     JArr(<< JStr(<<120>>), JStr(<<121>>) >>)>>) >>) }

\* q parameters: none, empty, not base64 ("a", "%%%%"), base64 of "hello"
\* and of "[1,", of [], of each malformed payload, and of a real question list.
QParams ==
    { <<>>, <<113, 61>>, <<113, 61, 97>>, <<113, 61, 37, 37, 37, 37>>,
      <<113, 61>> \o Btoa(<<104, 101, 108, 108, 111>>).v,
      <<113, 61>> \o Btoa(<<91, 49, 44>>).v,
      <<113, 61>> \o Btoa(JSONStringify(JArr(<<>>))).v,
      <<113, 61>> \o Btoa(JSONStringify(Payload(LunchPoll.questions))).v }
    \cup { <<113, 61>> \o Btoa(JSONStringify(v)).v : v \in MalformedPayloads }

\* t parameters: none, empty, not base64 ("a"), and a real title.
TParams ==
    { <<>>, <<116, 61>>, <<116, 61, 97>>, <<116, 61>> \o Btoa(LunchPoll.title).v }

JoinParams(t, q) ==
    IF t = <<>> THEN q ELSE IF q = <<>> THEN t ELSE t \o <<Chr.amp>> \o q

\* The query strings a respondent page is opened with.
SampleSearch ==
    { LinkOf(s) : s \in SampleSurveys } \cup { JoinParams(t, q) : t \in TParams, q \in QParams }

BuilderIdle ==
    /\ title = InitialTitle /\ questions = <<>> /\ nextId = 1
    /\ onGenerate = Idle /\ steps = 0

InitPage ==
    /\ searchParams \in SampleSearch
    /\ phase = "Loading"
    /\ pageQuestions = JUndefined
    /\ pageTitle = <<>>
    /\ answers = <<>>
    /\ submitted = FALSE
    /\ BuilderIdle
    /\ QRIdle

NextPage ==
    \/ Mount
    \/ \E i \in 1 .. Len(pageQuestions.a), value \in AnswerInputs : AnswerText(i, value)
    \/ \E i \in 1 .. Len(pageQuestions.a) : \E j \in 1 .. Len(Radios(i)) : AnswerOption(i, j)
    \/ Submit

SpecPage == InitPage /\ [][NextPage]_vars

-----------------------------------------------------------------------------
(* QRGenerator *)

PREVIEW_SIZE == 200
DOWNLOAD_SIZE == 1024

\* At most MaxPending QRCode.toDataURL promises are followed at a time.
MaxPending == 2

\* previewSrc: null, or the data URL of an image.
Null == [image |-> FALSE, text |-> <<>>, width |-> 0]

\* The data URL QRCode.toDataURL resolves to: an image of a code that
\* encodes text, width pixels wide.
DataURL(text, width) == [image |-> TRUE, text |-> text, width |-> width]

\* What gets typed into the URL field: "", " ", " u ", "v".
UrlInputs == { <<>>, <<32>>, <<32, 117, 32>>, <<118>> }

\* What the survey form hands to onGenerate.
SurveyUrls == { Encode(LunchPoll.title, LunchPoll.questions).arg }

\* generateQR with no test of its target.
generateQRUnguarded(targetUrl) ==
    /\ Len(pending) < MaxPending
    /\ loading' = TRUE
    /\ activeUrl' = targetUrl
    /\ pending' = Append(pending, Trim(targetUrl))

\* generateQR up to its await: nothing for a blank target; else loading and
\* activeUrl are set and QRCode.toDataURL is called with the trimmed target.
generateQR(targetUrl) ==
    IF ~Truthy(Trim(targetUrl))
    THEN UNCHANGED <<loading, activeUrl, pending>>
    ELSE /\ Len(pending) < MaxPending
         /\ loading' = TRUE
         /\ activeUrl' = targetUrl
         /\ pending' = Append(pending, Trim(targetUrl))

\* onChange of the URL field
SetUrl(v) ==
    /\ mode = "url"
    /\ url' = v
    /\ download' = Idle
    /\ UNCHANGED <<builderVars, pageVars, mode, previewSrc, loading, generated, activeUrl, pending>>

\* onClick of the Generate button, disabled when the URL is blank or loading
generate ==
    /\ mode = "url"
    /\ Truthy(Trim(url)) /\ ~loading
    /\ generateQR(url)
    /\ download' = Idle
    /\ UNCHANGED <<builderVars, pageVars, mode, url, previewSrc, generated>>

\* Enter in the URL field
handleKeyDown ==
    /\ mode = "url"
    /\ generateQR(url)
    /\ download' = Idle
    /\ UNCHANGED <<builderVars, pageVars, mode, url, previewSrc, generated>>

\* onGenerate of the survey form
handleSurveyGenerate(surveyUrl) ==
    /\ mode = "survey"
    /\ generateQR(surveyUrl)
    /\ download' = Idle
    /\ UNCHANGED <<builderVars, pageVars, mode, url, previewSrc, generated>>

\* switchMode without the reset of the result.
switchModeKeepsResult(m) ==
    /\ mode' = m
    /\ activeUrl' = <<>>
    /\ download' = Idle
    /\ UNCHANGED <<builderVars, pageVars, url, previewSrc, generated, loading, pending>>

switchMode(m) ==
    /\ mode' = m
    /\ previewSrc' = Null
    /\ generated' = FALSE
    /\ activeUrl' = <<>>
    /\ download' = Idle
    /\ UNCHANGED <<builderVars, pageVars, url, loading, pending>>

\* generateQR after its await, the promise of pending[i] resolved
Resolved(i) ==
    /\ i \in 1 .. Len(pending)
    /\ previewSrc' = DataURL(pending[i], PREVIEW_SIZE)
    /\ generated' = TRUE
    /\ loading' = FALSE
    /\ pending' = WithoutIndex(pending, i - 1)
    /\ download' = Idle
    /\ UNCHANGED <<builderVars, pageVars, mode, url, activeUrl>>

\* The catch of generateQR without setPreviewSrc(null).
RejectedKeepsPreview(i) ==
    /\ i \in 1 .. Len(pending)
    /\ loading' = FALSE
    /\ pending' = WithoutIndex(pending, i - 1)
    /\ download' = Idle
    /\ UNCHANGED <<builderVars, pageVars, mode, url, previewSrc, generated, activeUrl>>

\* generateQR after its await, the promise of pending[i] rejected
Rejected(i) ==
    /\ i \in 1 .. Len(pending)
    /\ previewSrc' = Null
    /\ loading' = FALSE
    /\ pending' = WithoutIndex(pending, i - 1)
    /\ download' = Idle
    /\ UNCHANGED <<builderVars, pageVars, mode, url, generated, activeUrl>>

\* The result section, with the preview and the Download button
ResultShown == generated /\ previewSrc.image

\* onClick of the Download button: nothing for a blank activeUrl; else the
\* image of the trimmed activeUrl is offered, unless QRCode.toDataURL rejects.
downloadHQ(resolves) ==
    /\ ResultShown
    /\ download' = Ran(IF Truthy(Trim(activeUrl)) /\ resolves
                       THEN Call(DataURL(Trim(activeUrl), DOWNLOAD_SIZE)) ELSE NoCall)
    /\ UNCHANGED <<builderVars, pageVars, mode, url, previewSrc, loading, generated, activeUrl, pending>>

InitQR ==
    /\ mode = "url"
    /\ url = <<>>
    /\ previewSrc = Null
    /\ loading = FALSE
    /\ generated = FALSE
    /\ activeUrl = <<>>
    /\ pending = <<>>
    /\ download = Idle
    /\ BuilderIdle
    /\ PageIdle

NextQR ==
    \/ \E v \in UrlInputs : SetUrl(v)
    \/ generate
    \/ handleKeyDown
    \/ \E u \in SurveyUrls : handleSurveyGenerate(u)
    \/ \E m \in {"url", "survey"} : switchMode(m)
    \/ \E i \in 1 .. MaxPending : Resolved(i)
    \/ \E i \in 1 .. MaxPending : Rejected(i)
    \/ \E resolves \in BOOLEAN : downloadHQ(resolves)

SpecQR == InitQR /\ [][NextQR]_vars

-----------------------------------------------------------------------------
(* Properties of the survey link: SpecBuilder *)

\* Whether the decoded question list is the authored list with every text
\* and option trimmed: same ids, texts, types and options, in the same order.
IsTrimmedCopy(qv, qs) ==
    /\ qv.t = "array"
    /\ Len(qv.a) = Len(qs)
    /\ \A i \in 1 .. Len(qs) :
          LET d == qv.a[i]
              Trimmed(o) == JStr(Trim(o))
          IN  /\ d.t = "object"
              /\ GetProp(d, Key.id) = JNum(qs[i].id)
              /\ GetProp(d, Key.text) = JStr(Trim(qs[i].text))
              /\ GetProp(d, Key.type) = JStr(TypeName(qs[i].type))
              /\ GetProp(d, Key.options) =
                    IF qs[i].type = "mcq"
                    THEN JArr([j \in DOMAIN qs[i].options |-> Trimmed(qs[i].options[j])])
                    ELSE JUndefined

\* The authoring invariants, as the data model states them.
AuthoringInvariants ==
    /\ Trim(title) # <<>>
    /\ Len(questions) >= 1
    /\ \A i \in 1 .. Len(questions) : Trim(questions[i].text) # <<>>
    /\ \A i \in 1 .. Len(questions) :
          questions[i].type = "mcq" =>
              \A j \in 1 .. Len(questions[i].options) : Trim(questions[i].options[j]) # <<>>

\* C1: whenever handleGenerate has produced a URL, decoding its t and q
\* parameters gives back the trimmed title and the trimmed question list.
C1_RoundTrip ==
    onGenerate.called =>
        /\ DecodeTitle(Search(onGenerate.arg)) = Trim(title)
        /\ IsTrimmedCopy(DecodeQuestions(Search(onGenerate.arg)), questions)

\* C2: a step hands a URL to onGenerate only in a state that satisfies the
\* authoring invariants, and handleGenerate in a state that does not satisfy
\* them makes no call; either way the title, the questions and nextId stay.
C2_EncodingRefused ==
    [][ /\ onGenerate'.called =>
              AuthoringInvariants /\ UNCHANGED <<title, questions, nextId>>
        /\ (onGenerate'.ran /\ ~AuthoringInvariants) =>
              ~onGenerate'.called /\ UNCHANGED <<title, questions, nextId>> ]_vars

\* C2 witness: handleGenerate ran on a two-question survey and produced a URL.
C2_Witness == onGenerate.called /\ Len(questions) = 2

\* C2 second witness state: handleGenerate ran and was refused.
C2_RefusedReached == onGenerate.ran /\ ~onGenerate.called /\ ~AuthoringInvariants

\* The q parameter of a query string is missing, is no base64, or decodes to
\* a text that is no JSON.
QUndecodable(qs) ==
    LET encoded == SearchParamsGet(qs, <<113>>)
    IN  IF ~encoded.found THEN TRUE
        ELSE IF ~Atob(encoded.v).ok THEN TRUE
        ELSE ~JSONParse(Atob(encoded.v).v).ok

\* The t parameter of a query string is missing, empty, or no base64.
TUndecodable(qs) ==
    LET t == SearchParamsGet(qs, <<116>>)
    IN  IF ~t.found \/ t.v = <<>> THEN TRUE ELSE ~Atob(t.v).ok

\* The JSON value the q parameter carries, for a q that is not QUndecodable.
QValue(qs) == JSONParse(Atob(SearchParamsGet(qs, <<113>>).v).v).v

\* The q parameter is the one the authoring form writes for the Lunch Poll.
QWellFormed(qs) ==
    SearchParamsGet(qs, <<113>>) = Present(Btoa(JSONStringify(Payload(LunchPoll.questions))).v)

\* C3: once the page has rendered, a missing or undecodable q parameter means
\* the Invalid state, with no answers collected, whatever the t parameter is.
C3_MissingQInvalid ==
    (phase # "Loading" /\ QUndecodable(searchParams)) =>
        phase = "Invalid" /\ answers = <<>> /\ ~submitted

\* C3 witness: the page is Invalid for a q that is base64 of a text that is
\* no JSON, next to a t that decodes to a title.
C3_Witness ==
    /\ phase = "Invalid"
    /\ SearchParamsGet(searchParams, <<113>>).found
    /\ Atob(SearchParamsGet(searchParams, <<113>>).v).ok
    /\ QUndecodable(searchParams)
    /\ ~TUndecodable(searchParams)
    /\ pageTitle = LunchPoll.title

\* A JSON value of the Question list shape: an array of objects that have a
\* number for id, a string for text, "text" or "mcq" for type, an array of
\* strings for the options of an "mcq", and ids that differ.
ExpectedShape(v) ==
    /\ v.t = "array"
    /\ \A i \in 1 .. Len(v.a) :
          LET q == v.a[i]
              options == GetProp(q, Key.options)
          IN  /\ q.t = "object"
              /\ GetProp(q, Key.id).t = "number"
              /\ GetProp(q, Key.text).t = "string"
              /\ GetProp(q, Key.type) \in {JStr(Key.text), JStr(Key.mcq)}
              /\ GetProp(q, Key.type) = JStr(Key.mcq) =>
                    /\ options.t = "array"
                    /\ \A j \in 1 .. Len(options.a) : options.a[j].t = "string"
    /\ \A i, j \in 1 .. Len(v.a) :
          i # j => GetProp(v.a[i], Key.id) # GetProp(v.a[j], Key.id)

\* The q parameter decodes and parses to a JSON value that is no Question list.
QMalformed(qs) == ~QUndecodable(qs) /\ ~ExpectedShape(QValue(qs))

C5_MalformedInvalid ==
    (phase # "Loading" /\ QMalformed(searchParams)) =>
        phase = "Invalid" /\ answers = <<>> /\ ~submitted

\* Every question of the decoded survey has an answer that is a string with
\* something other than white space in it.
EveryAnswered ==
    /\ pageQuestions.t = "array"
    /\ \A i \in 1 .. Len(pageQuestions.a) :
          /\ ~Nullish(pageQuestions.a[i])
          /\ LET a == AnswerOf(answers, PropertyKey(GetProp(pageQuestions.a[i], Key.id)))
             IN  a.t = "string" /\ Trim(a.s) # <<>>

C6_BlankAnswerReached ==
    /\ phase = "Active" /\ ~SubmitEnabled
    /\ \E k \in DOMAIN answers : answers[k] = JStr(<<32>>)

\* C7: the state of a session changes only from Loading to Invalid, from
\* Loading to Active and from Active to Submitted, so that Invalid and
\* Submitted are left by no step, and submitted never turns back to false.
C7_TerminalStates ==
    [][ /\ phase' # phase =>
              <<phase, phase'>> \in { <<"Loading", "Invalid">>, <<"Loading", "Active">>,
                                      <<"Active", "Submitted">> }
        /\ phase \in {"Invalid", "Submitted"} => UNCHANGED <<phase, submitted, answers>>
        /\ submitted => submitted' ]_vars

\* C8: in every state each multiple-choice question has from MinOptions to
\* MaxOptions options, the question that a first step of addQuestion has
\* appended has MinOptions empty ones, addOption leaves a question that has
\* MaxOptions options as it is, and removeOption, whatever the index, leaves a question
\* that has MinOptions options as it is.
C8_OptionCount ==
    \A i \in DOMAIN questions :
        LET q == questions[i]
        IN  q.type = "mcq" =>
              /\ Len(q.options) \in MinOptions .. MaxOptions
              /\ steps = 1 => q.options = << <<>>, <<>> >>
              /\ Len(q.options) = MaxOptions => addOptionTo(q, q.id) = q
              /\ Len(q.options) = MinOptions =>
                    \A oIdx \in OptionIndexes : removeOptionFrom(q, q.id, oIdx) = q

\* C8 witness: a multiple-choice question has MaxOptions options, reached
\* with a step to spare for one more addOption.
C8_Witness ==
    /\ \E i \in DOMAIN questions :
          questions[i].type = "mcq" /\ Len(questions[i].options) = MaxOptions
    /\ steps > MaxOptions - MinOptions + 1

\* C9: while the result section is shown, the text the Download button
\* encodes, the trimmed activeUrl, is the text the preview image encodes,
\* and so is the text of an image a download has just offered.
C9_SameContent ==
    ResultShown =>
        /\ Trim(activeUrl) = previewSrc.text
        /\ download.called => download.arg.text = previewSrc.text

\* The request of pending[i] has been followed by a newer request that is
\* still in flight, by a request for another text, or by a mode switch.
Superseded(i) ==
    /\ i \in 1 .. Len(pending)
    /\ i < Len(pending) \/ pending[i] # Trim(activeUrl)

\* C10: the completion of a superseded request leaves the displayed preview
\* and the generated flag as they are.
C10_SupersededDiscarded ==
    [][ \A i \in 1 .. MaxPending :
          (Superseded(i) /\ (Resolved(i) \/ Rejected(i))) =>
              UNCHANGED <<previewSrc, generated>> ]_vars

\* C11: a step in which a request fails leaves no preview image held, no
\* result section shown and loading false, whatever was shown before; the
\* Generate button, disabled while loading, can be pressed again.
C11_FailureRevertsToNoResult ==
    [][ \A i \in 1 .. MaxPending :
          Rejected(i) =>
              /\ previewSrc' = Null
              /\ ~ResultShown'
              /\ ~loading' ]_vars

\* C11 witness: a request has failed after an earlier one had succeeded, and
\* no request is in flight.
C11_Witness == generated /\ previewSrc = Null /\ ~loading /\ pending = <<>>

\* C12: Enter, or the Generate button, on a URL field that is empty or all
\* white space starts no request and leaves previewSrc, generated, loading
\* and activeUrl as they are, the button being disabled there; and a
\* download with a blank activeUrl offers no file.
C12_BlankInputNoOp ==
    [][ /\ (~Truthy(Trim(url)) /\ (handleKeyDown \/ generate)) =>
              UNCHANGED <<previewSrc, generated, loading, activeUrl, pending>>
        /\ ~Truthy(Trim(url)) => ~ENABLED generate
        /\ (download'.ran /\ ~Truthy(Trim(activeUrl))) => ~download'.called ]_vars

\* C12 witness: the URL field holds a space, and a download with an empty
\* activeUrl has run and offered nothing.
C12_Witness ==
    /\ url = <<32>> /\ mode = "url"
    /\ download.ran /\ ~download.called /\ ~Truthy(Trim(activeUrl))

\* The t and q strings as handleGenerate wrote them into a survey URL: what
\* stands between "?t=" and "&q=", and what follows "&q=".
WrittenT(u) == SubSeq(u, IndexOf(u, Chr.qmark, 1) + 3, IndexOf(u, Chr.amp, 1) - 1)
WrittenQ(u) == SubSeq(u, IndexOf(u, Chr.amp, 1) + 3, Len(u))

\* C13: the t and q values that query-string parsing hands to the page are
\* the strings handleGenerate wrote into the URL, character for character.
C13_UrlSafe ==
    onGenerate.called =>
        /\ SearchParamsGet(Search(onGenerate.arg), <<116>>) = Present(WrittenT(onGenerate.arg))
        /\ SearchParamsGet(Search(onGenerate.arg), <<113>>) = Present(WrittenQ(onGenerate.arg))

\* C14: the q string handleGenerate writes is base64 of a JSON array with
\* one object per question, in order, of the question's id, trimmed text
\* and type, with options, each trimmed, for multiple-choice questions and
\* for no others; the t string is base64 of the trimmed title.
C14_PayloadFormat ==
    onGenerate.called =>
        LET t == Atob(WrittenT(onGenerate.arg))
            q == Atob(WrittenQ(onGenerate.arg))
        IN  /\ t.ok /\ t.v = Trim(title)
            /\ q.ok /\ JSONParse(q.v).ok
            /\ IsTrimmedCopy(JSONParse(q.v).v, questions)
            /\ \A i \in 1 .. Len(questions) :
                  Len(JSONParse(q.v).v.a[i].k) = IF questions[i].type = "mcq" THEN 4 ELSE 3

\* C14 witness: a URL has been produced for a multiple-choice question with
\* an option that had white space to trim.
C14_Witness ==
    /\ onGenerate.called
    /\ \E i \in DOMAIN questions :
          /\ questions[i].type = "mcq"
          /\ questions[i].options[1] # Trim(questions[i].options[1])

\* C14 second witness state: a URL has been produced for a text question.
C14_TextQuestionReached ==
    onGenerate.called /\ \E i \in DOMAIN questions : questions[i].type = "text"

\* C15: after every step the ids of the question list increase strictly
\* along the list and lie below nextId; nextId never decreases, also when
\* the form is mounted again; and a question that a step appends gets the
\* value nextId had, above every id handed out before.
C15_IdsUniqueMonotonic ==
    [][ /\ \A i, j \in DOMAIN questions' :
              i < j => questions'[i].id < questions'[j].id
        /\ \A i \in DOMAIN questions' : questions'[i].id < nextId'
        /\ nextId' >= nextId
        /\ Len(questions') > Len(questions) =>
              /\ questions'[Len(questions')].id = nextId
              /\ nextId' = nextId + 1 ]_vars

\* C15 witness: the list holds two neighbours whose ids are not consecutive,
\* the question between them removed, and the newest question is the last.
C15_Witness ==
    /\ \E i \in DOMAIN questions :
          i + 1 \in DOMAIN questions /\ questions[i].id + 1 < questions[i + 1].id
    /\ questions[Len(questions)].id = nextId - 1

\* C15 second witness state: a question added after the form was mounted
\* again, its id above the ids of the earlier mount.
C15_AfterRemountReached ==
    Len(questions) = 1 /\ questions[1].id = 3 /\ steps = 4 /\ title = InitialTitle

\* The page was opened on the link the authoring form produces for a survey
\* it accepts.
OpenedOnProducedLink == \E survey \in SampleSurveys : searchParams = LinkOf(survey)

\* C16: a page opened on a produced link is, once rendered, Active or
\* Submitted and never Invalid, with the Submit button enabled as soon as
\* every question is answered; and Submit there leads to Submitted.
C16_EndToEnd ==
    [][ (OpenedOnProducedLink /\ phase' # "Loading") =>
            /\ phase' \in {"Active", "Submitted"}
            /\ (phase' = "Active" /\ EveryAnswered') => SubmitEnabled'
            /\ (phase = "Active" /\ EveryAnswered /\ submitted') => phase' = "Submitted" ]_vars

\* C17: in an Active session the answer recorded for a question, if any, is
\* one value: a string for a question shown with a textarea, and one of the
\* question's own options for a question shown with radios.
C17_SingleAnswers ==
    phase = "Active" =>
        \A i \in 1 .. Len(pageQuestions.a) :
            LET q == pageQuestions.a[i]
                a == AnswerOf(answers, PropertyKey(GetProp(q, Key.id)))
            IN  \/ Nullish(a)
                \/ IF GetProp(q, Key.type) = JStr(Key.text)
                   THEN a.t = "string"
                   ELSE \E j \in 1 .. Len(Radios(i)) : a = Radios(i)[j]

\* C18: once the page has rendered, no step changes the decoded title, the
\* decoded question list or the query string they were read from.
C18_SurveyReadOnly ==
    [][ phase # "Loading" => UNCHANGED <<pageQuestions, pageTitle, searchParams>> ]_vars

\* C18 witness: a session has recorded answers and has been submitted, and
\* it still holds the question list and the title of its link.
C18_Witness ==
    /\ phase = "Submitted" /\ answers # <<>>
    /\ pageQuestions = QValue(searchParams)
    /\ pageTitle = LunchPoll.title

\* The key under which the answer of question i is recorded.
AnswerKey(i) == PropertyKey(GetProp(pageQuestions.a[i], Key.id))

\* C19: a step that records value for a question maps the question's id to
\* value, whatever was recorded before; a step that changes answers starts
\* in Active, changes the entry of one id, keeps every other entry and
\* keeps submitted; answers is empty in Loading and in Invalid.
C19_HandleAnswerFrame ==
    [][ /\ \A i \in 1 .. Len(pageQuestions.a), value \in AnswerInputs :
              AnswerText(i, value) => AnswerOf(answers', AnswerKey(i)) = JStr(value)
        /\ \A i \in 1 .. Len(pageQuestions.a) : \A j \in 1 .. Len(Radios(i)) :
              AnswerOption(i, j) => AnswerOf(answers', AnswerKey(i)) = Radios(i)[j]
        /\ answers' # answers =>
              /\ phase = "Active"
              /\ submitted' = submitted
              /\ \E k \in DOMAIN answers' :
                    /\ DOMAIN answers' = DOMAIN answers \cup {k}
                    /\ \A m \in DOMAIN answers \ {k} : answers'[m] = answers[m]
        /\ phase \in {"Loading", "Invalid"} => answers = <<>>
        /\ phase' \in {"Loading", "Invalid"} => answers' = <<>> ]_vars

\* C19 witness: an Active session holds the answers of two questions.
C19_Witness == phase = "Active" /\ Cardinality(DOMAIN answers) = 2

\* C20: while the result section is shown activeUrl is not empty, and a
\* download that has run there had a text to encode.
C20_ResultHasActiveUrl ==
    ResultShown =>
        /\ activeUrl # <<>>
        /\ download.ran => Truthy(Trim(activeUrl))

\* C21: loading is true exactly while a request is in flight.
C21_LoadingExact == loading <=> pending # <<>>

\* A step keeps the title, nextId, the number of questions, and every
\* question but those of the given id, of which it keeps the id and the type.
TargetsOnly(id) ==
    /\ title' = title /\ nextId' = nextId
    /\ Len(questions') = Len(questions)
    /\ \A j \in DOMAIN questions :
          IF questions[j].id = id
          THEN questions'[j].id = id /\ questions'[j].type = questions[j].type
          ELSE questions'[j] = questions[j]

\* The questions of the given id keep their text, or keep their options.
KeepsText(id) ==
    \A j \in DOMAIN questions : questions[j].id = id => questions'[j].text = questions[j].text
KeepsOptions(id) ==
    \A j \in DOMAIN questions :
        questions[j].id = id => questions'[j].options = questions[j].options

\* No question of the list has the given id.
NotInList(id) == \A j \in DOMAIN questions : questions[j].id # id

\* The handlers' frames are compared over the first FrameSteps steps of a
\* session.
FrameSteps == 3

\* The ids of the questions in the list, and one id that is not in the list.
TargetIds == { questions[j].id : j \in DOMAIN questions } \cup {nextId}

C23_SwitchModeFrame ==
    [][ /\ \A m \in {"url", "survey"} :
              switchMode(m) =>
                  /\ mode' = m
                  /\ previewSrc' = Null /\ ~generated' /\ activeUrl' = <<>>
                  /\ ~ResultShown'
                  /\ url' = url /\ loading' = loading /\ pending' = pending
        /\ (~ResultShown /\ ResultShown') =>
              /\ pending # <<>> /\ Len(pending') < Len(pending)
              /\ \E i \in 1 .. Len(pending) : previewSrc' = DataURL(pending[i], PREVIEW_SIZE) ]_vars

\* C23 witness: the mode has been switched to the survey tab while a
\* request for the URL field's text was in flight.
C23_Witness ==
    /\ mode = "survey" /\ url # <<>>
    /\ previewSrc = Null /\ ~generated /\ activeUrl = <<>>
    /\ loading /\ pending # <<>>

\* C23 second witness state: the mode has been switched to the survey tab
\* with no request in flight.
C23_IdleAfterSwitchReached ==
    /\ mode = "survey" /\ url # <<>> /\ pending = <<>> /\ ~loading
    /\ previewSrc = Null /\ ~generated /\ activeUrl = <<>>

=============================================================================
